---- MODULE Spec2Model ----
(***************************************************************************)
(* Model of app.py, the Diabetes Risk Checker: the helpers clip_value,     *)
(* risk_level_from_prob and health_advice, the DPF lookup of the form,     *)
(* load_model, and the submit handler that clips the inputs, derives BMI,  *)
(* assembles the feature vector, calls the classifier and renders the      *)
(* result.                                                                 *)
(*                                                                         *)
(* Units.  Python floats are modelled in fixed point, so that every        *)
(* comparison of the source is an integer comparison:                      *)
(*   glucose, blood, age, insulin, skin : whole units                      *)
(*   weight (kg), height (cm)           : tenths                           *)
(*   bmi, dpf                           : hundredths                       *)
(*   prob                               : thousandths                      *)
(* Python's None is the empty sequence <<>>, a present value v is <<v>>.   *)
(* The Thai strings of the source are named in English.                    *)
(***************************************************************************)
EXTENDS Integers, Sequences, FiniteSets

VARIABLES
    DPF_MAP,    \* the module-level dict DPF_MAP
    artifact,   \* what lies at MODEL_FILENAME: "absent", "corrupt" or a classifier
    model,      \* load_model()[0]
    model_err,  \* load_model()[1]
    pc,         \* position of the script run: "start", "loaded", "done", "crashed"
    inp,        \* the widget values of the run that was submitted
    loc,        \* the submit handler's locals
    summary,    \* the dict shown by st.write under the summary header
    out,        \* what the handler rendered, in order
    calls,      \* the classifier operations invoked, in order
    steps,      \* the handler's statements executed, in order
    behaviour,  \* what the classifier's operations do when called in this run
    fargs,      \* arguments of a helper under test
    fres        \* results of the helper under test

vars == <<DPF_MAP, artifact, model, model_err, pc, inp, loc, summary, out,
          calls, steps, behaviour, fargs, fres>>

pipeVars == <<DPF_MAP, artifact, model, model_err, pc, inp, loc, summary, out,
              calls, steps, behaviour>>

(***************************************************************************)
(* Bounds of the model.                                                    *)
(***************************************************************************)
OutMargin == 5      \* how far outside its declared range a raw input may lie
MaxV == 7           \* clip_value under test: |v| <= MaxV
MaxB == 4           \* clip_value under test: |minv|, |maxv| <= MaxB
ProbMargin == 40    \* risk_level_from_prob under test: p in -ProbMargin..1000+ProbMargin
Near == 1           \* health_advice under test: distance explored around each threshold
BmiMargin == 3      \* BMI under test: kg / cm explored outside the declared range

None == <<>>
Some(v) == <<v>>
Present(x) == x # None
Val(x) == x[1]

Max(a, b) == IF a >= b THEN a ELSE b
Min(a, b) == IF a <= b THEN a ELSE b

(***************************************************************************)
(* Config / constants (app.py lines 9-36).                                 *)
(***************************************************************************)
RANGES ==
    [age     |-> <<10, 100>>,
     glucose |-> <<40, 300>>,
     blood   |-> <<40, 140>>,
     skin    |-> <<5, 80>>,
     insulin |-> <<10, 400>>,
     bmi     |-> <<1000, 6000>>,
     weight  |-> <<200, 2500>>,
     height  |-> <<1000, 2200>>]

MEDIAN_FALLBACKS == [Insulin |-> 80, SkinThickness |-> 20]

DPF_MAP_INITIAL ==
    [no_family_history   |-> 5,
     distant_relative    |-> 50,
     parent              |-> 100,
     parent_and_siblings |-> 200,
     multiple_relatives  |-> 250]

(***************************************************************************)
(* Helpers (app.py lines 41-86).                                           *)
(***************************************************************************)

\* lines 41-49: the classifier when the file exists and deserialises, else
\* None with a message.  A classifier is the set of operations it exposes.
load_model(a) ==
    IF a.file = "absent" THEN <<None, "missing">>
    ELSE IF a.file = "corrupt" THEN <<None, "load_error">>
    ELSE <<Some([attrs |-> a.attrs]), "none">>

\* hasattr(None, name) is False
hasattr(m, name) == m # None /\ name \in Val(m).attrs

\* variant of clip_value that forgets the upper bound
clip_value_no_upper(v, minv, maxv) == Max(v, minv)

\* lines 51-52: np.clip(v, minv, maxv) is minimum(maximum(v, minv), maxv), and
\* float() keeps the value
clip_value(v, minv, maxv) == Min(Max(v, minv), maxv)

\* variant of risk_level_from_prob whose thresholds belong to the lower bucket
risk_level_from_prob_exclusive(p) ==
    IF p <= 300 THEN <<"Low", "msg_low">>
    ELSE IF p <= 600 THEN <<"Medium", "msg_medium">>
    ELSE <<"High", "msg_high">>

\* lines 54-61: <<label, message>>
risk_level_from_prob(p) ==
    IF p < 300 THEN <<"Low", "msg_low">>
    ELSE IF p < 600 THEN <<"Medium", "msg_medium">>
    ELSE <<"High", "msg_high">>

\* variant of health_advice that appends the age line first
health_advice_age_first(glucose, bmi, blood, age, insulin_provided, skin_provided) ==
    (IF Present(age) /\ Val(age) >= 60 THEN <<"age_60_plus">> ELSE <<>>)
    \o (IF Present(bmi)
        THEN IF Val(bmi) >= 3000 THEN <<"obesity">>
             ELSE IF Val(bmi) >= 2500 THEN <<"overweight">>
             ELSE <<"healthy_weight">>
        ELSE <<>>)
    \o (IF Present(glucose)
        THEN IF Val(glucose) >= 200 THEN <<"glucose_urgent">>
             ELSE IF Val(glucose) >= 140 THEN <<"glucose_prediabetes">>
             ELSE <<"glucose_normal">>
        ELSE <<>>)
    \o (IF Present(blood) /\ Val(blood) >= 120 THEN <<"high_blood_pressure">> ELSE <<>>)
    \o (IF ~insulin_provided \/ ~skin_provided THEN <<"data_incomplete">> ELSE <<>>)

\* lines 63-86
health_advice(glucose, bmi, blood, age, insulin_provided, skin_provided) ==
    (IF Present(bmi)
        THEN IF Val(bmi) >= 3000 THEN <<"obesity">>
             ELSE IF Val(bmi) >= 2500 THEN <<"overweight">>
             ELSE <<"healthy_weight">>
        ELSE <<>>)
    \o (IF Present(glucose)
        THEN IF Val(glucose) >= 200 THEN <<"glucose_urgent">>
             ELSE IF Val(glucose) >= 140 THEN <<"glucose_prediabetes">>
             ELSE <<"glucose_normal">>
        ELSE <<>>)
    \o (IF Present(blood) /\ Val(blood) >= 120 THEN <<"high_blood_pressure">> ELSE <<>>)
    \o (IF ~insulin_provided \/ ~skin_provided THEN <<"data_incomplete">> ELSE <<>>)
    \o (IF Present(age) /\ Val(age) >= 60 THEN <<"age_60_plus">> ELSE <<>>)

(***************************************************************************)
(* The form (app.py lines 133-134): dpf = DPF_MAP[dpf_label].  A label     *)
(* that is no key raises KeyError, which ends the script run.              *)
(***************************************************************************)
\* variant of the lookup written as DPF_MAP.get(dpf_label, 0.05)
dpf_lookup_with_default(d, label) ==
    IF label \in DOMAIN d THEN [raised |-> FALSE, dpf |-> Some(d[label])]
    ELSE [raised |-> FALSE, dpf |-> Some(5)]

\* line 134
dpf_lookup(d, label) ==
    IF label \in DOMAIN d THEN [raised |-> FALSE, dpf |-> Some(d[label])]
    ELSE [raised |-> TRUE, dpf |-> None]

(***************************************************************************)
(* The submit handler (app.py lines 138-217).                              *)
(***************************************************************************)

\* num * 10^k divided by den, one decimal digit at a time (the products stay
\* within TLC's integers): <<quotient, remainder>> from <<q, r>> = num divmod den.
RECURSIVE ScaledDiv(_, _, _, _)
ScaledDiv(q, r, den, k) ==
    IF k = 0 THEN <<q, r>>
    ELSE ScaledDiv(10 * q + ((10 * r) \div den), (10 * r) % den, den, k - 1)

\* line 144: round(weight / ((height/100.0)**2), 2), weight and height in
\* tenths, the result in hundredths: 100 * (w/10) / (h/1000)^2 = w * 10^7 / h^2.
\* round(x, 2) gives the hundredth nearest the float x.  Where the exact
\* quotient lies midway between two hundredths (24 kg at 160 cm is 9.375) the
\* float's own rounding error decides which of the two it is, so there either
\* is possible: tie = 0 for the lower one, tie = 1 for the upper one.
IsTie(weight, height) ==
    LET den == height * height
    IN  2 * ScaledDiv(weight \div den, weight % den, den, 7)[2] = den

TieChoices(weight, height) == IF IsTie(weight, height) THEN {0, 1} ELSE {0}

\* variant of bmi_raw that truncates to 2 decimals instead of rounding
bmi_raw_truncated(weight, height, tie) ==
    LET den == height * height
    IN  ScaledDiv(weight \div den, weight % den, den, 7)[1]

bmi_raw(weight, height, tie) ==
    LET den == height * height
        qr  == ScaledDiv(weight \div den, weight % den, den, 7)
    IN  IF 2 * qr[2] < den THEN qr[1]
        ELSE IF 2 * qr[2] > den THEN qr[1] + 1
        ELSE qr[1] + tie

\* lines 144-145
bmi_of(weight, height, tie) ==
    clip_value(bmi_raw(weight, height, tie), RANGES.bmi[1], RANGES.bmi[2])

\* variant of optional_input whose flag is derived from the value used
optional_flag_by_value(x, fallback, range) ==
    [used     |-> clip_value(IF Present(x) THEN Val(x) ELSE fallback, range[1], range[2]),
     provided |-> Present(x) /\ Val(x) # fallback
                             /\ Val(x) = clip_value(Val(x), range[1], range[2])]

\* lines 148-154: the value used and the provided flag of an optional input
optional_input(x, fallback, range) ==
    [used     |-> clip_value(IF Present(x) THEN Val(x) ELSE fallback, range[1], range[2]),
     provided |-> Present(x)]

\* line 156: age is the widget's value as it is
feature_vector_of(glucose, bmi, age, blood, insulin_used, dpf, skin_used) ==
    <<glucose, bmi, age, blood, insulin_used, dpf, skin_used>>

\* variant of model_unavailable: the handler without its check of the model
model_unavailable_never(m) == FALSE

\* line 173
model_unavailable(m) == m = None

\* variant of Classify that calls predict whenever the classifier has it
Classify_prefers_predict(m, beh) ==
    IF hasattr(m, "predict")
    THEN [calls  |-> <<"predict">>,
          raised |-> beh.predict.raises,
          prob   |-> IF beh.predict.raises THEN None
                     ELSE Some(1000 * beh.predict.value[1])]
    ELSE [calls  |-> <<"predict_proba">>,
          raised |-> beh.predict_proba.raises,
          prob   |-> IF beh.predict_proba.raises THEN None
                     ELSE Some(beh.predict_proba.value[2])]

\* variant of Classify that falls back to predict when predict_proba raises
Classify_retries_with_predict(m, beh) ==
    IF hasattr(m, "predict_proba") /\ ~beh.predict_proba.raises
    THEN [calls  |-> <<"predict_proba">>,
          raised |-> FALSE,
          prob   |-> Some(beh.predict_proba.value[2])]
    ELSE [calls  |-> (IF hasattr(m, "predict_proba") THEN <<"predict_proba">> ELSE <<>>)
                     \o <<"predict">>,
          raised |-> beh.predict.raises,
          prob   |-> IF beh.predict.raises THEN None
                     ELSE Some(1000 * beh.predict.value[1])]

\* lines 178-183.  beh is what each operation of the classifier does when it
\* is called: it raises, or returns value; predict_proba(X)[0] is the pair
\* (negative, positive) of probabilities, predict(X) the one label, and
\* float(pred) that label as a probability.
Classify(m, beh) ==
    IF hasattr(m, "predict_proba")
    THEN [calls  |-> <<"predict_proba">>,
          raised |-> beh.predict_proba.raises,
          prob   |-> IF beh.predict_proba.raises THEN None
                     ELSE Some(beh.predict_proba.value[2])]
    ELSE [calls  |-> <<"predict">>,
          raised |-> beh.predict.raises,
          prob   |-> IF beh.predict.raises THEN None
                     ELSE Some(1000 * beh.predict.value[1])]

\* lines 188-193: the level is shown by st.success, st.warning or st.error
level_item(risk_label) ==
    IF risk_label = "Low" THEN <<"success", risk_label>>
    ELSE IF risk_label = "Medium" THEN <<"warning", risk_label>>
    ELSE <<"error", risk_label>>

\* lines 203-210
extra_suggestions(prob) ==
    IF prob >= 600 THEN << <<"write", "see_a_doctor">>, <<"write", "care_plan">> >>
    ELSE IF prob >= 300 THEN << <<"write", "change_diet">>, <<"write", "exercise">> >>
    ELSE << <<"write", "keep_it_up">> >>

\* lines 198-199
advice_items(adv_list) == [i \in 1..Len(adv_list) |-> <<"write", adv_list[i]>>]

\* lines 139-171: what the handler computes and shows before it looks at the model
StepsBeforeModel ==
    <<"clip_glucose", "clip_blood", "clip_weight", "clip_height", "bmi",
      "optional_inputs", "clip_insulin", "clip_skin", "feature_vector",
      "summary", "model_check">>

\* lines 138-217, the body of `if submit:`, for the widget values in, the
\* looked-up dpf, the loaded model m, the classifier's behaviour beh and the
\* direction tie of a midway BMI.
SubmitHandler(m, in, dpf, beh, tie) ==
    LET glucose == clip_value(in.glucose, RANGES.glucose[1], RANGES.glucose[2])
        blood   == clip_value(in.blood, RANGES.blood[1], RANGES.blood[2])
        weight  == clip_value(in.weight, RANGES.weight[1], RANGES.weight[2])
        height  == clip_value(in.height, RANGES.height[1], RANGES.height[2])
        bmi     == bmi_of(weight, height, tie)
        ins     == optional_input(in.insulin, MEDIAN_FALLBACKS.Insulin, RANGES.insulin)
        sk      == optional_input(in.skin, MEDIAN_FALLBACKS.SkinThickness, RANGES.skin)
        fv      == feature_vector_of(glucose, bmi, in.age, blood, ins.used, dpf, sk.used)
        shown   == [Glucose |-> glucose, BMI |-> bmi, Age |-> in.age,
                    BloodPressure |-> blood, Insulin_used |-> ins.used, DPF |-> dpf,
                    SkinThickness_used |-> sk.used,
                    Insulin_provided |-> ins.provided, Skin_provided |-> sk.provided]
        base    == [glucose |-> glucose, blood |-> blood, weight |-> weight,
                    height |-> height, bmi |-> bmi, age |-> in.age,
                    insulin_used |-> ins.used, skin_used |-> sk.used,
                    insulin_provided_flag |-> ins.provided,
                    skin_provided_flag |-> sk.provided,
                    feature_vector |-> fv,
                    prob |-> None, risk_label |-> None, risk_msg |-> None,
                    adv_list |-> None]
        head    == << <<"subheader", "summary">>, <<"write", "summary_dict">> >>
    IN  IF model_unavailable(m)
        THEN [loc |-> base, summary |-> Some(shown),
              out |-> Append(head, <<"error", "no_model">>),
              calls |-> <<>>, steps |-> StepsBeforeModel]
        ELSE LET c == Classify(m, beh)
             IN  IF c.raised
                 THEN [loc |-> base, summary |-> Some(shown),
                       out |-> Append(head, <<"error", "predict_failed">>),
                       calls |-> c.calls,
                       steps |-> StepsBeforeModel \o <<"classify", "except">>]
                 ELSE LET prob == Val(c.prob)
                          risk == risk_level_from_prob(prob)
                          adv  == health_advice(Some(glucose), Some(bmi), Some(blood),
                                                Some(in.age), ins.provided, sk.provided)
                      IN  [loc |-> [base EXCEPT !.prob = Some(prob),
                                                !.risk_label = Some(risk[1]),
                                                !.risk_msg = Some(risk[2]),
                                                !.adv_list = Some(adv)],
                           summary |-> Some(shown),
                           out |-> head
                                   \o << <<"markdown", "result">>, <<"metric", "prob">>,
                                         level_item(risk[1]), <<"markdown", "advice">> >>
                                   \o advice_items(adv)
                                   \o << <<"markdown", "extra">> >>
                                   \o extra_suggestions(prob)
                                   \o (IF ~ins.provided \/ ~sk.provided
                                       THEN << <<"info", "optional_note">> >>
                                       ELSE <<>>),
                           calls |-> c.calls,
                           steps |-> StepsBeforeModel
                                     \o <<"classify", "risk_level", "metric", "level",
                                          "health_advice", "extra", "optional_note">>]

(***************************************************************************)
(* The environment: the artifact on disk, the widget values, and what the  *)
(* classifier does.  The handler clips "for safety" (line 139), so its     *)
(* inputs are taken as raw values that may lie outside the declared        *)
(* ranges.  A classifier exposes at least one of predict_proba and         *)
(* predict; calling an operation it does not expose raises.                *)
(***************************************************************************)
Artifacts ==
    {[file |-> "absent", attrs |-> {}],
     [file |-> "corrupt", attrs |-> {}],
     [file |-> "ok", attrs |-> {"predict_proba", "predict"}],
     [file |-> "ok", attrs |-> {"predict_proba"}],
     [file |-> "ok", attrs |-> {"predict"}]}

GlucoseInputs == {RANGES.glucose[1] - OutMargin, 150, RANGES.glucose[2] + OutMargin}
BloodInputs   == {RANGES.blood[1] - OutMargin, 120, RANGES.blood[2] + OutMargin}
AgeInputs     == {RANGES.age[1] - OutMargin, 60, RANGES.age[2] + OutMargin}
BodyInputs    ==
    {<<700, 1700>>, <<200, 2200>>,
     <<RANGES.weight[2] + 10 * OutMargin, RANGES.height[1] - 10 * OutMargin>>}
InsulinInputs ==
    {None, Some(MEDIAN_FALLBACKS.Insulin), Some(RANGES.insulin[2] + OutMargin)}
SkinInputs    ==
    {None, Some(MEDIAN_FALLBACKS.SkinThickness), Some(RANGES.skin[1] - OutMargin)}
Labels        == DOMAIN DPF_MAP_INITIAL \cup {"unknown_label"}

Inputs ==
    {[age |-> a, weight |-> b[1], height |-> b[2], glucose |-> g, blood |-> bp,
      skin |-> s, insulin |-> i, dpf_label |-> l] :
        a \in AgeInputs, b \in BodyInputs, g \in GlucoseInputs, bp \in BloodInputs,
        s \in SkinInputs, i \in InsulinInputs, l \in Labels}

Raises == [raises |-> TRUE, value |-> <<>>]
Returns(v) == [raises |-> FALSE, value |-> v]
ProbSamples == {299, 300, 500, 600}

Behaviours(m) ==
    IF m = None THEN {[predict_proba |-> Raises, predict |-> Raises]}
    ELSE [predict_proba :
             IF hasattr(m, "predict_proba")
             THEN {Raises} \cup {Returns(<<1000 - p, p>>) : p \in ProbSamples}
             ELSE {Raises},
          predict :
             IF hasattr(m, "predict")
             THEN {Raises} \cup {Returns(<<l>>) : l \in {0, 1}}
             ELSE {Raises}]

NoBehaviour == [predict_proba |-> Raises, predict |-> Raises]

HelperIdle == fargs = <<>> /\ fres = <<>>

PipelineIdle ==
    /\ DPF_MAP = DPF_MAP_INITIAL
    /\ artifact = [file |-> "absent", attrs |-> {}]
    /\ model = None
    /\ model_err = "none"
    /\ pc = "start"
    /\ inp = None
    /\ loc = None
    /\ summary = None
    /\ out = <<>>
    /\ calls = <<>>
    /\ steps = <<>>
    /\ behaviour = NoBehaviour

(***************************************************************************)
(* The script run.                                                         *)
(***************************************************************************)
Init ==
    /\ DPF_MAP = DPF_MAP_INITIAL
    /\ artifact \in Artifacts
    /\ model = None
    /\ model_err = "none"
    /\ pc = "start"
    /\ inp = None
    /\ loc = None
    /\ summary = None
    /\ out = <<>>
    /\ calls = <<>>
    /\ steps = <<>>
    /\ behaviour = NoBehaviour
    /\ HelperIdle

\* lines 97-101
LoadModel ==
    /\ pc = "start"
    /\ model' = load_model(artifact)[1]
    /\ model_err' = load_model(artifact)[2]
    /\ out' = IF load_model(artifact)[2] # "none"
              THEN << <<"warning", load_model(artifact)[2]>> >>
              ELSE << <<"success", "model_loaded">> >>
    /\ pc' = "loaded"
    /\ UNCHANGED <<DPF_MAP, artifact, inp, loc, summary, calls, steps, behaviour, fargs, fres>>

\* lines 133-134 with a label that is no key of DPF_MAP: KeyError ends the run
LookupFails ==
    /\ pc = "loaded"
    /\ \E in \in Inputs :
          /\ dpf_lookup(DPF_MAP, in.dpf_label).raised
          /\ inp' = Some(in)
    /\ pc' = "crashed"
    /\ UNCHANGED <<DPF_MAP, artifact, model, model_err, loc, summary, out, calls,
                   steps, behaviour, fargs, fres>>

\* lines 103-138 with submit false: the form is drawn and nothing else runs
RenderForm ==
    /\ pc = "loaded"
    /\ \E in \in Inputs : ~dpf_lookup(DPF_MAP, in.dpf_label).raised
    /\ pc' = "done"
    /\ UNCHANGED <<DPF_MAP, artifact, model, model_err, inp, loc, summary, out, calls,
                   steps, behaviour, fargs, fres>>

\* lines 103-217 with submit true
Submit ==
    /\ pc = "loaded"
    /\ \E in \in Inputs, b \in Behaviours(model) :
          \E t \in TieChoices(clip_value(in.weight, RANGES.weight[1], RANGES.weight[2]),
                              clip_value(in.height, RANGES.height[1], RANGES.height[2])) :
             LET l == dpf_lookup(DPF_MAP, in.dpf_label)
                 h == SubmitHandler(model, in, Val(l.dpf), b, t)
             IN  /\ ~l.raised
                 /\ inp' = Some(in)
                 /\ behaviour' = b
                 /\ loc' = Some(h.loc)
                 /\ summary' = h.summary
                 /\ out' = out \o h.out
                 /\ calls' = h.calls
                 /\ steps' = h.steps
    /\ pc' = "done"
    /\ UNCHANGED <<DPF_MAP, artifact, model, model_err, fargs, fres>>

\* the next interaction runs the script again from the top
Rerun ==
    /\ pc \in {"done", "crashed"}
    /\ model' = None
    /\ model_err' = "none"
    /\ pc' = "start"
    /\ inp' = None
    /\ loc' = None
    /\ summary' = None
    /\ out' = <<>>
    /\ calls' = <<>>
    /\ steps' = <<>>
    /\ behaviour' = NoBehaviour
    /\ UNCHANGED <<DPF_MAP, artifact, fargs, fres>>

Next == LoadModel \/ LookupFails \/ RenderForm \/ Submit \/ Rerun

Spec == Init /\ [][Next]_vars

(***************************************************************************)
(* The helpers on their own: the arguments are drawn from bounded sets and *)
(* the helper is applied to them.                                          *)
(***************************************************************************)

\* clip_value: every v and every range minv <= maxv within the bounds
ClipArgs ==
    {<<v, lo, hi>> : v \in -MaxV..MaxV, lo \in -MaxB..MaxB, hi \in -MaxB..MaxB}

InitClip ==
    /\ PipelineIdle
    /\ fargs \in {a \in ClipArgs : a[2] <= a[3]}
    /\ fres = <<>>

ClipOnce ==
    /\ Len(fres) = 0
    /\ fres' = <<clip_value(fargs[1], fargs[2], fargs[3])>>
    /\ UNCHANGED <<pipeVars, fargs>>

ClipAgain ==
    /\ Len(fres) = 1
    /\ fres' = Append(fres, clip_value(fres[1], fargs[2], fargs[3]))
    /\ UNCHANGED <<pipeVars, fargs>>

NextClip == ClipOnce \/ ClipAgain

SpecClip == InitClip /\ [][NextClip]_vars

\* risk_level_from_prob: every p in thousandths, a margin outside [0, 1] included
ProbArgs == (0 - ProbMargin)..(1000 + ProbMargin)

InitRisk ==
    /\ PipelineIdle
    /\ fargs \in {<<p>> : p \in ProbArgs}
    /\ fres = <<>>

Bucketize ==
    /\ Len(fres) = 0
    /\ fres' = <<risk_level_from_prob(fargs[1])>>
    /\ UNCHANGED <<pipeVars, fargs>>

NextRisk == Bucketize

SpecRisk == InitRisk /\ [][NextRisk]_vars

\* health_advice: the values around each threshold, the ends of each range,
\* one value well inside the top bucket, and None
Around(t) == (t - Near)..(t + Near)
AdviceGlucose == {None} \cup {Some(g) : g \in {40, 250, 300} \cup Around(140) \cup Around(200)}
AdviceBmi     == {None} \cup {Some(b) : b \in {1000, 3200, 6000} \cup Around(2500) \cup Around(3000)}
AdviceBlood   == {None} \cup {Some(b) : b \in {40, 130, 140} \cup Around(120)}
AdviceAge     == {None} \cup {Some(a) : a \in {10, 65, 100} \cup Around(60)}

InitAdvice ==
    /\ PipelineIdle
    /\ fargs \in {<<g, b, bp, a, ip, sp>> :
                    g \in AdviceGlucose, b \in AdviceBmi, bp \in AdviceBlood,
                    a \in AdviceAge, ip \in BOOLEAN, sp \in BOOLEAN}
    /\ fres = <<>>

Advise ==
    /\ Len(fres) = 0
    /\ fres' = <<health_advice(fargs[1], fargs[2], fargs[3], fargs[4], fargs[5], fargs[6])>>
    /\ UNCHANGED <<pipeVars, fargs>>

NextAdvice == Advise

SpecAdvice == InitAdvice /\ [][NextAdvice]_vars

\* BMI (lines 142-145): every whole kg and whole cm of the declared ranges and
\* a margin outside them, in tenths
BmiWeights == {10 * k : k \in (20 - BmiMargin)..(250 + BmiMargin)}
BmiHeights == {10 * k : k \in (100 - BmiMargin)..(220 + BmiMargin)}

InitBmi ==
    /\ PipelineIdle
    /\ fargs \in {<<w, h>> : w \in BmiWeights, h \in BmiHeights}
    /\ fres = <<>>

ComputeBmi ==
    /\ Len(fres) = 0
    /\ LET weight == clip_value(fargs[1], RANGES.weight[1], RANGES.weight[2])
           height == clip_value(fargs[2], RANGES.height[1], RANGES.height[2])
       IN  \E tie \in TieChoices(weight, height) :
              fres' = <<weight, height, bmi_of(weight, height, tie)>>
    /\ UNCHANGED <<pipeVars, fargs>>

NextBmi == ComputeBmi

SpecBmi == InitBmi /\ [][NextBmi]_vars

(***************************************************************************)
(* The claims.                                                             *)
(***************************************************************************)
Elems(seq) == {seq[i] : i \in 1..Len(seq)}
Pos(seq, x) == CHOOSE i \in 1..Len(seq) : seq[i] = x
InRange(v, range) == range[1] <= v /\ v <= range[2]
Submitted == pc = "done" /\ inp # None
Locals == Val(loc)
NoRiskAssessment ==
    /\ Locals.prob = None
    /\ Locals.risk_label = None
    /\ Locals.risk_msg = None
    /\ Locals.adv_list = None
    /\ \A i \in 1..Len(out) : out[i][1] \notin {"metric", "markdown", "info"}
    /\ \A i \in 1..Len(out) : out[i][1] = "write" => out[i][2] = "summary_dict"

\* C1 as stated: with no model, a submission reports artifact-unavailable
\* before any feature assembly: neither the clipping, the BMI step nor the
\* feature-vector assembly is executed, no classifier call is made and no
\* RiskAssessment is produced.
C1_NoAssemblyWithoutModel ==
    (Submitted /\ model = None) =>
        /\ Elems(steps) \cap {"clip_glucose", "clip_blood", "clip_weight", "clip_height",
                              "bmi", "feature_vector"} = {}
        /\ calls = <<>>
        /\ NoRiskAssessment

\* C1 as amended: with no model, a submission still clips the inputs, computes
\* BMI, assembles the feature vector and shows the input summary, and only then
\* reports artifact-unavailable at the model check: no classifier call is made
\* and no RiskAssessment is produced.
C1_ShortCircuitAtModelCheck ==
    (Submitted /\ model = None) =>
        /\ model_err \in {"missing", "load_error"}
        /\ {"clip_glucose", "bmi", "feature_vector", "summary", "model_check"}
              \subseteq Elems(steps)
        /\ Pos(steps, "feature_vector") < Pos(steps, "model_check")
        /\ steps[Len(steps)] = "model_check"
        /\ "classify" \notin Elems(steps)
        /\ Len(Locals.feature_vector) = 7
        /\ summary # None
        /\ out[Len(out)] = <<"error", "no_model">>
        /\ calls = <<>>
        /\ NoRiskAssessment

C1_Witness ==
    /\ Submitted
    /\ model = None
    /\ artifact.file = "corrupt"
    /\ out[Len(out)] = <<"error", "no_model">>

\* C2: risk_level_from_prob(p) is Low iff p < 0.30, Medium iff 0.30 <= p < 0.60
\* and High iff p >= 0.60, the boundaries 0.30 and 0.60 belonging to the upper
\* bucket; exactly one tier is returned and the tier is monotone in p.
TierRank(t) == IF t = "Low" THEN 1 ELSE IF t = "Medium" THEN 2 ELSE 3

C2_Tiers ==
    fres # <<>> =>
        LET p == fargs[1]
            t == fres[1][1]
        IN  /\ t \in {"Low", "Medium", "High"}
            /\ (t = "Low") <=> (p < 300)
            /\ (t = "Medium") <=> (300 <= p /\ p < 600)
            /\ (t = "High") <=> (p >= 600)
            /\ p = 290 => t = "Low"
            /\ p = 300 => t = "Medium"
            /\ p = 590 => t = "Medium"
            /\ p = 600 => t = "High"
            /\ \A q \in ProbArgs :
                  q <= p => TierRank(risk_level_from_prob(q)[1]) <= TierRank(t)

C2_Witness == fres # <<>> /\ fargs[1] = 300 /\ fres[1][1] = "Medium"

\* C3: for present glucose, bmi, bloodPressure and age, health_advice returns,
\* in the order weight, glucose, blood pressure, data completeness, age: one
\* weight line (obesity iff bmi >= 30, overweight iff 25 <= bmi < 30, healthy
\* iff bmi < 25), one glucose line (urgent iff glucose >= 200, pre-diabetes iff
\* 140 <= glucose < 200, normal iff glucose < 140), the blood-pressure line iff
\* bloodPressure >= 120, one data-completeness line iff a flag is false, the
\* age line iff age >= 60: 2 to 5 lines, and 5 for (250, 32, 130, 65, F, T).
AdviceRank(line) ==
    IF line \in {"obesity", "overweight", "healthy_weight"} THEN 1
    ELSE IF line \in {"glucose_urgent", "glucose_prediabetes", "glucose_normal"} THEN 2
    ELSE IF line = "high_blood_pressure" THEN 3
    ELSE IF line = "data_incomplete" THEN 4
    ELSE IF line = "age_60_plus" THEN 5
    ELSE 0

C3_AdviceOrder ==
    (fres # <<>> /\ \A i \in 1..4 : Present(fargs[i])) =>
        LET glucose == Val(fargs[1])
            bmi     == Val(fargs[2])
            blood   == Val(fargs[3])
            age     == Val(fargs[4])
            adv     == fres[1]
        IN  /\ Len(adv) \in 2..5
            /\ \A i \in 1..Len(adv) : AdviceRank(adv[i]) > 0
            /\ \A i, j \in 1..Len(adv) : i < j => AdviceRank(adv[i]) < AdviceRank(adv[j])
            /\ (adv[1] = "obesity") <=> (bmi >= 3000)
            /\ (adv[1] = "overweight") <=> (2500 <= bmi /\ bmi < 3000)
            /\ (adv[1] = "healthy_weight") <=> (bmi < 2500)
            /\ (adv[2] = "glucose_urgent") <=> (glucose >= 200)
            /\ (adv[2] = "glucose_prediabetes") <=> (140 <= glucose /\ glucose < 200)
            /\ (adv[2] = "glucose_normal") <=> (glucose < 140)
            /\ ("high_blood_pressure" \in Elems(adv)) <=> (blood >= 120)
            /\ ("data_incomplete" \in Elems(adv)) <=> (~fargs[5] \/ ~fargs[6])
            /\ ("age_60_plus" \in Elems(adv)) <=> (age >= 60)
            /\ fargs = <<Some(250), Some(3200), Some(130), Some(65), FALSE, TRUE>>
                  => adv = <<"obesity", "glucose_urgent", "high_blood_pressure",
                             "data_incomplete", "age_60_plus">>

C3_Witness ==
    /\ fargs = <<Some(250), Some(3200), Some(130), Some(65), FALSE, TRUE>>
    /\ fres # <<>>
    /\ Len(fres[1]) = 5

InvokedOperation == IF "predict_proba" \in artifact.attrs THEN "predict_proba" ELSE "predict"

C5_FailureLeavesNoAssessment ==
    /\ Submitted => Len(calls) <= 1
    /\ (Submitted /\ model # None /\ behaviour[InvokedOperation].raises) =>
          /\ NoRiskAssessment
          /\ summary # None
          /\ <<"write", "summary_dict">> \in Elems(out)
          /\ out[Len(out)] = <<"error", "predict_failed">>
          /\ Len(calls) = 1

C5_Witness ==
    /\ Submitted
    /\ model # None
    /\ behaviour.predict_proba.raises
    /\ ~behaviour.predict.raises
    /\ calls = <<"predict_proba">>
    /\ out[Len(out)] = <<"error", "predict_failed">>

\* C6: with a classifier whose probability operation returns positive-class
\* probability 0.5, every submission ends in the Medium tier with a non-empty
\* advice list, and the insulin/skin provided flags passed to the advice and
\* shown in the summary are true iff the caller supplied the value, whatever
\* the fallback substitution and the clipping did.
C6_StubMedium ==
    (Submitted /\ model # None /\ hasattr(model, "predict_proba")
       /\ behaviour.predict_proba = Returns(<<500, 500>>)) =>
        LET in == Val(inp)
            sm == Val(summary)
        IN  /\ Locals.prob = Some(500)
            /\ Locals.risk_label = Some("Medium")
            /\ <<"warning", "Medium">> \in Elems(out)
            /\ Len(Val(Locals.adv_list)) > 0
            /\ Locals.insulin_provided_flag <=> Present(in.insulin)
            /\ Locals.skin_provided_flag <=> Present(in.skin)
            /\ sm.Insulin_provided <=> Present(in.insulin)
            /\ sm.Skin_provided <=> Present(in.skin)
            /\ ("data_incomplete" \in Elems(Val(Locals.adv_list)))
                  <=> (~Present(in.insulin) \/ ~Present(in.skin))

C6_Witness ==
    /\ Submitted
    /\ Locals.prob = Some(500)
    /\ Val(inp).insulin = Some(MEDIAN_FALLBACKS.Insulin)
    /\ Val(inp).skin = Some(RANGES.skin[1] - OutMargin)
    /\ Locals.skin_used = RANGES.skin[1]
    /\ Locals.insulin_provided_flag
    /\ Locals.skin_provided_flag
    /\ Locals.risk_label = Some("Medium")

\* C7: for every v and every range minv <= maxv, clip_value(v, minv, maxv) is
\* max(minv, min(v, maxv)): it lies in [minv, maxv], is v when v is in range,
\* always yields a value, and clipping the result again changes nothing.
C7_Clip ==
    /\ Len(fres) = 0 => ENABLED ClipOnce
    /\ Len(fres) >= 1 =>
          LET v  == fargs[1]
              lo == fargs[2]
              hi == fargs[3]
          IN  /\ fres[1] = Max(lo, Min(v, hi))
              /\ lo <= fres[1] /\ fres[1] <= hi
              /\ (lo <= v /\ v <= hi) => fres[1] = v
              /\ v < lo => fres[1] = lo
              /\ v > hi => fres[1] = hi
    /\ Len(fres) = 2 => fres[2] = fres[1]

C7_Witness == Len(fres) = 2 /\ fargs[1] > fargs[3] /\ fargs[2] < fargs[3] /\ fres[2] = fargs[3]

\* C8: the BMI is weight / (height/100)^2 of the clipped weight and height,
\* rounded to 2 decimals, then clipped to [10, 60]: it is always in [10, 60],
\* it is the rounded raw value when that is within [10, 60], 70 kg at 170 cm
\* gives 24.22 and 20 kg at 220 cm gives 10.
\* (x hundredths is the quotient rounded iff |x - 100 kg / m^2| <= 1/2; in whole
\* kg and cm, 100 kg / m^2 = kg * 10^6 / cm^2.)
C8_Bmi ==
    fres # <<>> =>
        LET kg  == Max(RANGES.weight[1], Min(fargs[1], RANGES.weight[2])) \div 10
            cm  == Max(RANGES.height[1], Min(fargs[2], RANGES.height[2])) \div 10
            bmi == fres[3]
            sq  == cm * cm
            num == kg * 1000000
        IN  /\ fres[1] = 10 * kg /\ fres[2] = 10 * cm
            /\ 1000 <= bmi /\ bmi <= 6000
            /\ (1000 < bmi /\ bmi < 6000) =>
                  (2 * (bmi * sq - num) <= sq /\ 2 * (num - bmi * sq) <= sq)
            /\ bmi = 1000 => 2 * (num - 1000 * sq) <= sq
            /\ bmi = 6000 => 2 * (6000 * sq - num) <= sq
            /\ (fargs[1] = 700 /\ fargs[2] = 1700) => bmi = 2422
            /\ (fargs[1] = 200 /\ fargs[2] = 2200) => bmi = 1000

C8_Witness == fres # <<>> /\ fargs = <<700, 1700>> /\ fres[3] = 2422

\* C9: the family-history table has exactly the 5 entries 0.05, 0.5, 1.0, 2.0,
\* 2.5; each of the 5 labels resolves to its score, a label outside them fails
\* the run without yielding a score or a default, and no run changes the table.
C9_FamilyHistory ==
    /\ DOMAIN DPF_MAP = {"no_family_history", "distant_relative", "parent",
                         "parent_and_siblings", "multiple_relatives"}
    /\ DPF_MAP["no_family_history"] = 5
    /\ DPF_MAP["distant_relative"] = 50
    /\ DPF_MAP["parent"] = 100
    /\ DPF_MAP["parent_and_siblings"] = 200
    /\ DPF_MAP["multiple_relatives"] = 250
    /\ Submitted =>
          /\ Val(inp).dpf_label \in DOMAIN DPF_MAP
          /\ Locals.feature_vector[6] = DPF_MAP[Val(inp).dpf_label]
          /\ Val(summary).DPF = DPF_MAP[Val(inp).dpf_label]
    /\ (inp # None /\ Val(inp).dpf_label \notin DOMAIN DPF_MAP) =>
          /\ pc = "crashed"
          /\ loc = None
          /\ summary = None
    /\ pc = "crashed" => (inp # None /\ Val(inp).dpf_label \notin DOMAIN DPF_MAP)

C9_Witness ==
    /\ Submitted
    /\ Val(inp).dpf_label = "parent"
    /\ Locals.feature_vector[6] = 100

\* C10: the handler calls the probability operation whenever the classifier
\* exposes it, takes the positive-class (second) probability and never calls
\* the label operation then; only without it does it call the label operation
\* and use the 0/1 label as the probability, so the tier is Low for 0, High for
\* 1 and never Medium.  One operation is invoked per submission that classifies.
C10_OperationChoice ==
    (Submitted /\ model # None) =>
        /\ Len(calls) = 1
        /\ hasattr(model, "predict_proba") =>
              /\ calls = <<"predict_proba">>
              /\ ~behaviour.predict_proba.raises =>
                    Locals.prob = Some(behaviour.predict_proba.value[2])
        /\ ~hasattr(model, "predict_proba") =>
              /\ calls = <<"predict">>
              /\ ~behaviour.predict.raises =>
                    /\ Locals.prob = Some(1000 * behaviour.predict.value[1])
                    /\ Locals.risk_label # Some("Medium")
                    /\ behaviour.predict.value[1] = 0 => Locals.risk_label = Some("Low")
                    /\ behaviour.predict.value[1] = 1 => Locals.risk_label = Some("High")

C10_Witness ==
    /\ Submitted
    /\ ~hasattr(model, "predict_proba")
    /\ calls = <<"predict">>
    /\ Locals.prob = Some(1000)
    /\ Locals.risk_label = Some("High")

====
